---- MODULE Spec2Model ----
(***************************************************************************)
(* Beta-decay toy Monte Carlo: the four generation macros (bdecay_sim, and *)
(* three versions of bdecay) and the two analysis macros (bdecay_plot,     *)
(* bdecay2), run from one interpreter session.                             *)
(*                                                                         *)
(* Energies are integers counted in tenths of an eV, so that the neutrino  *)
(* mass (0.2 eV) is 2 and the points Q-0.1 eV, Q-0.2 eV, Q-0.3 eV are      *)
(* distinct.  Floating-point values that only enter through their sign or  *)
(* through being NaN (the density N and the Fermi function F) are carried  *)
(* as one of "nan", "ninf", "neg", "zero", "pos", "pinf" and combined with *)
(* the IEEE rules for *, / and sqrt.                                       *)
(***************************************************************************)
EXTENDS Integers, Sequences, FiniteSets

(***************************************************************************)
(* Bounds of the model.                                                    *)
(***************************************************************************)
MaxExtra  == 1      \* nevents ranges over LongRun .. LongRun + MaxExtra
MaxRuns   == 2      \* calls of the generation entry point in one session
MaxSmear  == 4      \* largest smearing offset drawn, in tenths of an eV
MaxDZ     == 2      \* Z_2 is varied within Z_1 .. Z_1 + MaxDZ
MaxShort  == 3      \* the short runs have nevents in 1 .. MaxShort

(***************************************************************************)
(* Program constants (tenths of an eV where they are energies).            *)
(***************************************************************************)
Q_sim == 185900        \* 18590 eV
Q_ev  == 185368        \* 931.5e6*(m_1-m_2) = 18536.85 eV, on the grid
Q_h3  == 185368        \* 931.5*(m_1-m_2) MeV, the same decay in MeV
Q_c14 == 1555556       \* 931.5*(14.003241-14.0030740052) MeV = 155555.66 eV
m_e   == 5110000       \* 0.511 MeV
m_nu  == 2             \* 0.2 eV
WindowWidth == 250     \* the 25 eV of limit=(Q-25)/Q
PctDivisor == 100      \* nevents/100
DecDivisor == 10       \* nevents/10
Far == 10000000        \* energies at or beyond 1e6 eV are recorded as Far

Progs == {"bdecay_sim", "bdecay_ev", "bdecay_h3", "bdecay_c14"}

\* The versions of bdecay that derive the charge from Z_1 - Z_2.
ChecksCharge(p) == p \in {"bdecay_h3", "bdecay_c14"}

Z_1(p) == IF p = "bdecay_c14" THEN 6 ELSE 1

\* Z_2 as the source sets it.
Z_2src(p) == IF p = "bdecay_c14" THEN 7 ELSE 2

ndivisions(p) == IF p = "bdecay_c14" THEN 50 ELSE 100

\* h as numerator and denominator: 0.00002, 0.001, 10, 10.
h(p) == CASE p = "bdecay_sim" -> <<2, 100000>>
          [] p = "bdecay_ev"  -> <<1, 1000>>
          [] OTHER            -> <<10, 1>>

\* The initial value of the global limit, as a number of tenths n/d:
\* (Q-25)/Q, 0.99, 0.  bdecay_c14 has no limit; its window starts at 0.
limit0(p) == CASE p = "bdecay_sim" -> [n |-> Q_sim - WindowWidth, d |-> Q_sim \div 10]
               [] p = "bdecay_ev"  -> [n |-> 99, d |-> 10]
               [] OTHER            -> [n |-> 0, d |-> 1]

\* charge: a constant -1 in bdecay_sim and bdecay_ev, Z_1 - Z_2 otherwise.
charge(p, z2) == IF ChecksCharge(p) THEN Z_1(p) - z2 ELSE 0 - 1

IsBetaDecayMut(c) == c <= 1
IsBetaDecay(c) == c = 0 - 1 \/ c = 1

\* Q: a constant in bdecay_sim and bdecay_ev; in the other two it is set
\* from the charge (931.5*(m_1-m_2), minus 2*m_e for positive decay; the
\* source writes 2m_e).
Q(p, z2) == CASE p = "bdecay_sim" -> Q_sim
              [] p = "bdecay_ev"  -> Q_ev
              [] p = "bdecay_h3"  -> IF charge(p, z2) = 1 THEN Q_h3 - 2 * m_e ELSE Q_h3
              [] OTHER            -> IF charge(p, z2) = 1 THEN Q_c14 - 2 * m_e ELSE Q_c14

(***************************************************************************)
(* Integer helpers.                                                        *)
(***************************************************************************)
Abs(x) == IF x < 0 THEN 0 - x ELSE x
Min(a, b) == IF a < b THEN a ELSE b
Max(a, b) == IF a < b THEN b ELSE a

RECURSIVE GCD(_, _)
GCD(a, b) == IF b = 0 THEN a ELSE GCD(b, a % b)

\* floor(a*b/c) for a, b >= 0 and c > 0, recorded as Far when it is >= Far.
MulDivSat(a, b, c) ==
    LET g1 == GCD(b, c)
        b1 == b \div g1
        c1 == c \div g1
        g2 == GCD(a, c1)
        a2 == a \div g2
        c2 == c1 \div g2
    IN  IF a2 = 0 \/ b1 = 0 THEN 0
        ELSE IF a2 >= Far \/ b1 >= Far \/ a2 > (Far * c2) \div b1 THEN Far
        ELSE Min(Far, (a2 * b1) \div c2)

(***************************************************************************)
(* Floating-point values by class.                                         *)
(***************************************************************************)
Sgn(x) == IF x < 0 THEN "neg" ELSE IF x = 0 THEN "zero" ELSE "pos"

IsNegative(a) == a \in {"neg", "ninf"}
IsInfinite(a) == a \in {"pinf", "ninf"}

FMul(a, b) ==
    IF a = "nan" \/ b = "nan" THEN "nan"
    ELSE IF (a = "zero" /\ IsInfinite(b)) \/ (b = "zero" /\ IsInfinite(a)) THEN "nan"
    ELSE IF a = "zero" \/ b = "zero" THEN "zero"
    ELSE IF IsInfinite(a) \/ IsInfinite(b)
         THEN (IF IsNegative(a) = IsNegative(b) THEN "pinf" ELSE "ninf")
    ELSE IF IsNegative(a) = IsNegative(b) THEN "pos" ELSE "neg"

\* a / b; a zero divisor is +0 wherever the code divides.
FDiv(a, b) ==
    IF a = "nan" \/ b = "nan" THEN "nan"
    ELSE IF (a = "zero" /\ b = "zero") \/ (IsInfinite(a) /\ IsInfinite(b)) THEN "nan"
    ELSE IF a = "zero" \/ IsInfinite(b) THEN "zero"
    ELSE IF b = "zero" \/ IsInfinite(a)
         THEN (IF IsNegative(a) = IsNegative(b) THEN "pinf" ELSE "ninf")
    ELSE IF IsNegative(a) = IsNegative(b) THEN "pos" ELSE "neg"

FSqrt(a) == IF a \in {"neg", "ninf", "nan"} THEN "nan" ELSE a

\* 1 - exp(-2*Pi*eta)
OneMinusExp(eta) ==
    CASE eta = "pos"  -> "pos"
      [] eta = "pinf" -> "pos"
      [] eta = "neg"  -> "neg"
      [] eta = "ninf" -> "ninf"
      [] eta = "zero" -> "zero"
      [] OTHER        -> "nan"

\* The class of x^2 - m^2.
SqDiff(x, m) == Sgn(Abs(x) - Abs(m))

(***************************************************************************)
(* The Fermi function and the density.                                     *)
(***************************************************************************)
\* F(Z_2, T_e, charge): eta uses the global Z_1, not its first argument.
F(p, T, c) ==
    LET eta == FDiv(FMul(FMul(FMul(Sgn(T + m_e), Sgn(c)), "pos"), Sgn(Z_1(p))),
                    FSqrt(FMul(Sgn(2 * T), Sgn(m_e))))
    IN  FDiv(FMul("pos", eta), OneMinusExp(eta))

\* N(T_e, m_nu, C) with C = 1 (N(T_e, charge, Q) in bdecay_h3, bdecay_c14):
\* C*sqrt(T^2+2*T*m_e)*(T+m_e)*(Q-T)*sqrt((Q-T)^2-m_nu^2)*F.  The first
\* radicand is T*(T+2*m_e).
N(p, z2, T) ==
    FMul(FMul(FMul(FMul(FMul("pos",
         FSqrt(FMul(Sgn(T), Sgn(T + 2 * m_e)))),
         Sgn(T + m_e)),
         Sgn(Q(p, z2) - T)),
         FSqrt(SqDiff(Q(p, z2) - T, m_nu))),
         F(p, T, charge(p, z2)))

\* The energy at which the envelope is evaluated: Q/2.
EnvelopePointMut(p, z2) == Q(p, z2) - 1
EnvelopePoint(p, z2) == Q(p, z2) \div 2

\* u <= N(T_e)/(h*N(Q/2)) for u drawn in (0,1).  uLow says that the u drawn
\* is at or below the ratio; it can only be so when the ratio is positive.
AcceptTestMut(p, z2, T, uLow) ==
    LET ratio == FDiv(N(p, z2, T),
                      FMul(Sgn(h(p)[1]), N(p, z2, EnvelopePoint(p, z2))))
    IN  CASE ratio = "pinf" -> TRUE
          [] ratio = "pos"  -> uLow
          [] ratio = "zero" -> uLow
          [] OTHER          -> FALSE
AcceptTest(p, z2, T, uLow) ==
    LET ratio == FDiv(N(p, z2, T),
                      FMul(Sgn(h(p)[1]), N(p, z2, EnvelopePoint(p, z2))))
    IN  CASE ratio = "pinf" -> TRUE
          [] ratio = "pos"  -> uLow
          [] OTHER          -> FALSE

(***************************************************************************)
(* TH1D: bin 0 is the underflow bin, bin nbins+1 the overflow bin.         *)
(***************************************************************************)
NullHist == [name |-> "null", xlow |-> 0, xup |-> 0, nbins |-> 0,
             bin |-> [i \in 0..1 |-> 0], entries |-> 0]

TH1D(name, nbins, xlow, xup) ==
    [name |-> name, xlow |-> xlow, xup |-> xup, nbins |-> nbins,
     bin |-> [i \in 0..(nbins + 1) |-> 0], entries |-> 0]

SetName(hist, name) == [hist EXCEPT !.name = name]

FindBin(hist, x) ==
    IF x < hist.xlow THEN 0
    ELSE IF ~(x < hist.xup) THEN hist.nbins + 1
    ELSE 1 + (hist.nbins * (x - hist.xlow)) \div (hist.xup - hist.xlow)

Fill(hist, x) ==
    [hist EXCEPT !.bin[FindBin(hist, x)] = @ + 1, !.entries = @ + 1]

RECURSIVE SumBins(_, _)
SumBins(hist, k) == IF k = 0 THEN 0 ELSE hist.bin[k] + SumBins(hist, k - 1)

\* The sum of the in-range bin contents (bins 1..nbins).
Integral(hist) == SumBins(hist, hist.nbins)

(***************************************************************************)
(* The generation macros.                                                  *)
(***************************************************************************)
\* limit = limit*Q, on the grid: (n/d tenths) * (Q tenths) / 10.
Rescale(p, z2, lim) ==
    IF ~(p \in {"bdecay_sim", "bdecay_ev", "bdecay_h3"}) THEN lim
    ELSE IF lim.n = 0 THEN [n |-> 0, d |-> 1]
    ELSE [n |-> MulDivSat(lim.n, Q(p, z2), lim.d * 10), d |-> 1]

\* The range of the histograms: (limit, Q), or (0, 1.1*Q) in bdecay_c14.
HistLow(p, lim) == IF p = "bdecay_c14" THEN 0 ELSE lim.n

HistUpMut(p, z2) == Q(p, z2) \div 2
HistUp(p, z2) == IF p = "bdecay_c14" THEN (11 * Q(p, z2)) \div 10 ELSE Q(p, z2)

\* The lower end of the window T_e is drawn from: limit, or 0 for
\* rand->Uniform(Q) in bdecay_c14.
WindowLow(p, lim) == IF p = "bdecay_c14" THEN 0 ELSE lim.n

\* The name under which a histogram is written: "E_{e}" unless renamed.
TrueNameMut(p) == "E_{e}"
TrueName(p) == IF p \in {"bdecay_sim", "bdecay_ev"} THEN "E_e" ELSE "E_{e}"

\* The generator is seeded once per run (time(0)); the seed fixes the
\* values its stream takes.  Three classes of seed are followed: the stream
\* stays at the low end of the window, at the kinematic edge below Q, or in
\* the middle.
Seeds == {"low", "edge", "mid"}

\* rand->Uniform(limit,Q) = limit + (Q-limit)*Rndm() and rand->Uniform(Q) =
\* Q*Rndm(), with Rndm() in (0,1): a point strictly between the two ends.
UniformMut(a, b, sd) ==
    LET lo == Min(a, b)
        hi == Max(a, b)
    IN  {x \in {lo, lo + 1, hi - 1, hi} : lo <= x /\ x <= hi}
Uniform(a, b, sd) ==
    LET lo == Min(a, b)
        hi == Max(a, b)
        pts == CASE sd = "low"  -> {lo + 1, hi - 1}
                 [] sd = "edge" -> {hi - m_nu - 1, hi - m_nu, hi - 1}
                 [] OTHER       -> {(lo + hi) \div 2, hi - 1}
    IN  {x \in pts : lo < x /\ x < hi}

\* rand->Gaus(T_e,res): T_e plus a multiple of res; the offsets drawn.
Gaus(T, sd) ==
    CASE sd = "low"  -> {T - MaxSmear, T}
      [] sd = "edge" -> {T, T + MaxSmear}
      [] OTHER       -> {T}

\* if (Q<=T_e_sm<=limit*Q): the first comparison yields 0 or 1, which is
\* then compared with limit*Q (in eV^2; the grid product is 100 times it).
SmearGuardMut(p, z2, lim, Tsm) == lim.n <= Tsm /\ Tsm <= Q(p, z2)
SmearGuard(p, z2, lim, Tsm) ==
    (IF Q(p, z2) <= Tsm THEN 100 ELSE 0) * lim.d <= MulDivSat(lim.n, Q(p, z2), 1)

\* The smallest event count for which the progress divisor is not zero.
LongRun(p) == IF p = "bdecay_sim" THEN PctDivisor ELSE DecDivisor

\* if (!(++counter % (nevents/100))) { ... if (!(counter % (nevents/10))) }
\* in bdecay_sim, if (!(++counter % (nevents/10))) in bdecay.  A remainder
\* by zero is undefined: the run is killed by the trap, or it goes on.
ZeroDivisor(p, c, n) ==
    IF p = "bdecay_sim"
    THEN \/ n \div PctDivisor = 0
         \/ (c % (n \div PctDivisor) = 0 /\ n \div DecDivisor = 0)
    ELSE n \div DecDivisor = 0

ProgressNext(p, c, n) ==
    IF ZeroDivisor(p, c, n) THEN {"crashed", "loop"} ELSE {"loop"}

\* while (counter < nevents): the one condition of the sampling loop.
LoopCondMut(c, n) == c < n /\ c < PctDivisor \div 2
LoopCond(c, n) == c < n

(***************************************************************************)
(* State.                                                                  *)
(***************************************************************************)
VARIABLES
    prog,       \* the generation macro loaded in the session
    Z_2,        \* configured atomic number of the final nucleus
    nevents,    \* configured number of events
    seed,       \* the class of the seed of the generator
    limit,      \* the global limit, [n, d]: n/d tenths
    pc,         \* "idle", "setup", "loop", "done", "aborted", "crashed"
    runs,       \* calls of the entry point so far
    rand,       \* the TRandom3: "null", "seeded", "used"
    counter,    \* the acceptance counter
    E_e,        \* true histogram
    E_e_sm,     \* smeared histogram (bdecay_sim)
    draw,       \* the locals of the last iteration: T_e, N(T_e), T_e_sm
    rootfile,   \* the container: whether it exists, and the objects written
    aprog,      \* the analysis macro: "none", "bdecay_plot", "bdecay2"
    apc,        \* "idle", "func", "fit", "fit_sm", "end", "crashed"
    aE_e,       \* analysis: result of Get("E_e")
    aE_e_sm,    \* analysis: result of Get("E_e_sm")
    func,       \* the TF1: [m_nu, fixed, C]
    funcTwin,   \* func of the same analysis run on a container whose E_e is empty
    fits        \* the histograms Fit has been called on, in order

gvars == <<prog, Z_2, nevents, seed, limit, pc, runs, rand, counter, E_e, E_e_sm,
           draw, rootfile>>
avars == <<aprog, apc, aE_e, aE_e_sm, func, funcTwin, fits>>
vars == <<prog, Z_2, nevents, seed, limit, pc, runs, rand, counter, E_e, E_e_sm,
          draw, rootfile, aprog, apc, aE_e, aE_e_sm, func, funcTwin, fits>>

NoDraw == [valid |-> FALSE, T_e |-> 0, N |-> "nan", accepted |-> FALSE,
           T_e_sm |-> 0, filled_sm |-> FALSE]

NullFunc == [m_nu |-> 0, fixed |-> FALSE, C |-> 0, xmin |-> 0, xmax |-> 0]

\* The configured event counts: those for which the progress divisors
\* nevents/100 and nevents/10 are not zero, as for the 1e7 and 1e5 of the source.
NEvents(p) == LongRun(p) .. (LongRun(p) + MaxExtra)

Init ==
    /\ prog \in Progs
    /\ Z_2 \in IF ChecksCharge(prog)
               THEN Z_1(prog) .. (Z_1(prog) + MaxDZ)
               ELSE {Z_2src(prog)}
    /\ nevents \in NEvents(prog)
    /\ seed \in Seeds
    /\ limit = limit0(prog)
    /\ pc = "idle"
    /\ runs = 0
    /\ rand = "null"
    /\ counter = 0
    /\ E_e = NullHist
    /\ E_e_sm = NullHist
    /\ draw = NoDraw
    /\ rootfile = [exists |-> FALSE, keys |-> <<>>]
    /\ aprog = "none"
    /\ apc = "idle"
    /\ aE_e = NullHist
    /\ aE_e_sm = NullHist
    /\ func = NullFunc
    /\ funcTwin = NullFunc
    /\ fits = <<>>

(***************************************************************************)
(* Generation.                                                             *)
(***************************************************************************)
\* The entry point up to the first allocation: the charge test (the else
\* branch leaves the function) and limit = limit*Q.
Enter ==
    /\ pc \in {"idle", "done"}
    /\ apc = "idle"
    /\ runs < MaxRuns
    /\ runs' = runs + 1
    /\ IF ChecksCharge(prog) /\ ~IsBetaDecay(charge(prog, Z_2))
       THEN /\ pc' = "aborted"
            /\ limit' = limit
       ELSE /\ pc' = "setup"
            /\ limit' = Rescale(prog, Z_2, limit)
    /\ UNCHANGED <<prog, Z_2, nevents, seed, rand, counter, E_e, E_e_sm, draw, rootfile>>
    /\ UNCHANGED avars

\* new TRandom3, new TH1D (twice in bdecay_sim), new TFile(..., "recreate"),
\* int counter=0.
Setup ==
    /\ pc = "setup"
    /\ rand' = "seeded"
    /\ E_e' = SetName(TH1D("E_{e}", ndivisions(prog), HistLow(prog, limit),
                           HistUp(prog, Z_2)), TrueName(prog))
    /\ E_e_sm' = IF prog = "bdecay_sim"
                 THEN SetName(TH1D("E_{e}", ndivisions(prog), HistLow(prog, limit),
                                   HistUp(prog, Z_2)), "E_e_sm")
                 ELSE NullHist
    /\ rootfile' = [exists |-> TRUE, keys |-> <<>>]
    /\ counter' = 0
    /\ draw' = NoDraw
    /\ pc' = "loop"
    /\ UNCHANGED <<prog, Z_2, nevents, seed, limit, runs>>
    /\ UNCHANGED avars

\* One iteration of while (counter < nevents).
Iterate ==
    /\ pc = "loop"
    /\ LoopCond(counter, nevents)
    /\ \E T \in Uniform(WindowLow(prog, limit), Q(prog, Z_2), seed),
          uLow \in BOOLEAN :
          IF AcceptTest(prog, Z_2, T, uLow)
          THEN \E Tsm \in Gaus(T, seed),
                  next \in ProgressNext(prog, counter + 1, nevents) :
                  /\ E_e' = Fill(E_e, T)
                  /\ E_e_sm' = IF prog = "bdecay_sim" /\ SmearGuard(prog, Z_2, limit, Tsm)
                               THEN Fill(E_e_sm, Tsm)
                               ELSE E_e_sm
                  /\ draw' = [valid |-> TRUE, T_e |-> T, N |-> N(prog, Z_2, T),
                              accepted |-> TRUE,
                              T_e_sm |-> IF prog = "bdecay_sim" THEN Tsm ELSE 0,
                              filled_sm |-> prog = "bdecay_sim"
                                            /\ SmearGuard(prog, Z_2, limit, Tsm)]
                  /\ counter' = counter + 1
                  /\ pc' = next
          ELSE /\ draw' = [valid |-> TRUE, T_e |-> T, N |-> N(prog, Z_2, T),
                           accepted |-> FALSE, T_e_sm |-> 0, filled_sm |-> FALSE]
               /\ UNCHANGED <<E_e, E_e_sm, counter, pc>>
    /\ rand' = "used"
    /\ UNCHANGED <<prog, Z_2, nevents, seed, limit, runs, rootfile>>
    /\ UNCHANGED avars

\* The loop exit and E_e->Write() (and E_e_sm->Write() in bdecay_sim).
WriteOut ==
    /\ pc = "loop"
    /\ ~LoopCond(counter, nevents)
    /\ rootfile' = [rootfile EXCEPT !.keys =
                       IF prog = "bdecay_sim" THEN @ \o <<E_e, E_e_sm>>
                       ELSE @ \o <<E_e>>]
    /\ pc' = "done"
    /\ UNCHANGED <<prog, Z_2, nevents, seed, limit, runs, rand, counter, E_e, E_e_sm, draw>>
    /\ UNCHANGED avars

(***************************************************************************)
(* Analysis.                                                               *)
(***************************************************************************)
AnalysisProgs == {"bdecay_plot", "bdecay2"}

\* rootfile->Get(name): the object of that name, or a null pointer when the
\* file could not be opened or holds no such object.
Get(opened, keys, name) ==
    IF opened /\ \E i \in 1..Len(keys) : keys[i].name = name
    THEN keys[CHOOSE i \in 1..Len(keys) : keys[i].name = name]
    ELSE NullHist

\* The names the analysis macro asks for.
NamesRead(ap) == IF ap = "bdecay_plot" THEN <<"E_e", "E_e_sm">> ELSE <<"E_e">>

\* The fit window of bdecay_plot as its parameters name it.
fitmax == Q_sim - 250      \* Q-25
fitmin == Q_sim - 2        \* Q-0.2

\* new TF1("func","N(x,[0],[1])",fitmin,fitmax) (0,Q in bdecay2), with the
\* range as the arguments give it: parameters start at 0; bdecay_plot fixes
\* m_nu at 0.2 eV, bdecay2 sets it to 2 eV and leaves it free.
TF1(ap) == IF ap = "bdecay_plot"
           THEN [m_nu |-> m_nu, fixed |-> TRUE, C |-> 0,
                 xmin |-> fitmin, xmax |-> fitmax]
           ELSE [m_nu |-> 10 * m_nu, fixed |-> FALSE, C |-> 0,
                 xmin |-> 0, xmax |-> Q_ev]

\* The scale a least-squares fit of C*f to the histogram returns: linear in
\* the bin contents, here their sum.
FitScale(hist) == Integral(hist)

\* hist->Fit("func",...): starts from the current parameters of func and
\* leaves the fitted values in func; a fixed parameter is not moved.
Fit(hist, f) ==
    [f EXCEPT !.C = FitScale(hist),
              !.m_nu = IF f.fixed \/ Integral(hist) = 0 THEN @ ELSE m_nu]

\* The same histogram with every bin emptied.
Emptied(hist) == [hist EXCEPT !.bin = [i \in DOMAIN hist.bin |-> 0], !.entries = 0]

NextFit(ap, at) == IF ap = "bdecay_plot" /\ at = "fit" THEN "fit_sm" ELSE "end"

\* new TFile(filename + ".root", "read") and the Get calls.  found says
\* that the name given is that of the container the generation run made.
Load ==
    /\ pc \in {"idle", "done", "crashed", "aborted"}
    /\ apc = "idle"
    /\ \E ap \in AnalysisProgs, found \in BOOLEAN :
          /\ aprog' = ap
          /\ aE_e' = Get(found /\ rootfile.exists, rootfile.keys, NamesRead(ap)[1])
          /\ aE_e_sm' = IF ap = "bdecay_plot"
                        THEN Get(found /\ rootfile.exists, rootfile.keys, NamesRead(ap)[2])
                        ELSE NullHist
    /\ apc' = "func"
    /\ UNCHANGED <<func, funcTwin, fits>>
    /\ UNCHANGED gvars

MakeFunc ==
    /\ apc = "func"
    /\ func' = TF1(aprog)
    /\ funcTwin' = TF1(aprog)
    /\ apc' = "fit"
    /\ UNCHANGED <<aprog, aE_e, aE_e_sm, fits>>
    /\ UNCHANGED gvars

\* E_e->Fit("func",...); E_e->Draw().  Through a null pointer the call is
\* undefined: the macro dies there, or it goes on.
FitE_e ==
    /\ apc = "fit"
    /\ IF aE_e = NullHist
       THEN /\ fits' = Append(fits, "null")
            /\ apc' \in {"crashed", NextFit(aprog, "fit")}
            /\ UNCHANGED <<func, funcTwin>>
       ELSE /\ fits' = Append(fits, aE_e.name)
            /\ func' = Fit(aE_e, func)
            /\ funcTwin' = Fit(Emptied(aE_e), funcTwin)
            /\ apc' = NextFit(aprog, "fit")
    /\ UNCHANGED <<aprog, aE_e, aE_e_sm>>
    /\ UNCHANGED gvars

\* func->SetParName(0,"m_nu_sm"); E_e_sm->Fit("func","RMS"); E_e_sm->Draw().
FitE_e_sm ==
    /\ apc = "fit_sm"
    /\ IF aE_e_sm = NullHist
       THEN /\ fits' = Append(fits, "null")
            /\ apc' \in {"crashed", "end"}
            /\ UNCHANGED <<func, funcTwin>>
       ELSE /\ fits' = Append(fits, aE_e_sm.name)
            /\ func' = Fit(aE_e_sm, func)
            /\ funcTwin' = Fit(aE_e_sm, funcTwin)
            /\ apc' = "end"
    /\ UNCHANGED <<aprog, aE_e, aE_e_sm>>
    /\ UNCHANGED gvars

Next ==
    \/ Enter
    \/ Setup
    \/ Iterate
    \/ WriteOut
    \/ Load
    \/ MakeFunc
    \/ FitE_e
    \/ FitE_e_sm

Spec == Init /\ [][Next]_vars

\* The same session with a small configured event count.
InitShort ==
    /\ prog \in Progs
    /\ Z_2 \in IF ChecksCharge(prog)
               THEN Z_1(prog) .. (Z_1(prog) + MaxDZ)
               ELSE {Z_2src(prog)}
    /\ nevents \in 1 .. MaxShort
    /\ seed \in Seeds
    /\ limit = limit0(prog)
    /\ pc = "idle"
    /\ runs = 0
    /\ rand = "null"
    /\ counter = 0
    /\ E_e = NullHist
    /\ E_e_sm = NullHist
    /\ draw = NoDraw
    /\ rootfile = [exists |-> FALSE, keys |-> <<>>]
    /\ aprog = "none"
    /\ apc = "idle"
    /\ aE_e = NullHist
    /\ aE_e_sm = NullHist
    /\ func = NullFunc
    /\ funcTwin = NullFunc
    /\ fits = <<>>

SpecShort == InitShort /\ [][Next]_vars

(***************************************************************************)
(* Properties.                                                             *)
(***************************************************************************)
InLoop == pc \in {"loop", "done"}

NamesWritten == [i \in 1..Len(rootfile.keys) |-> rootfile.keys[i].name]

C1_State ==
    InLoop => /\ Integral(E_e) = counter
              /\ 0 <= counter /\ counter <= nevents
              /\ (pc = "done" => Integral(E_e) = nevents)

C1_Step ==
    (pc = "loop" /\ pc' = "loop") =>
        IF draw'.accepted
        THEN /\ counter' = counter + 1
             /\ \E k \in 1..E_e.nbins : E_e'.bin = [E_e.bin EXCEPT ![k] = @ + 1]
        ELSE /\ counter' = counter
             /\ E_e' = E_e
             /\ E_e_sm' = E_e_sm

\* C1: at every iteration boundary the in-range bins of E_e sum to the
\* acceptance counter and 0 <= counter <= nevents; a rejected draw changes
\* neither the counter nor a histogram, an accepted draw adds 1 to the
\* counter and to exactly one in-range bin; at the end the bins sum to nevents.
C1_Conservation == []C1_State /\ [][C1_Step]_vars

C1_Witness ==
    /\ pc = "done"
    /\ nevents = LongRun(prog)
    /\ Integral(E_e) = nevents
    /\ prog = "bdecay_sim"

\* C2: every accepted T_e lies strictly inside the sampling window,
\* limit < T_e < Q.
C2_AcceptedInsideWindow ==
    (pc \in {"loop", "done", "crashed"} /\ draw.valid /\ draw.accepted) =>
        /\ WindowLow(prog, limit) < draw.T_e
        /\ draw.T_e < Q(prog, Z_2)

C2_Witness ==
    /\ pc = "loop"
    /\ draw.valid /\ draw.accepted
    /\ draw.T_e = Q(prog, Z_2) - m_nu - 1
    /\ prog = "bdecay_ev"

\* C3: for every T_e with (Q - T_e)^2 < m_nu^2 the density N returns
\* exactly 0, never a NaN.
C3_ForbiddenIsZero ==
    (draw.valid /\ SqDiff(Q(prog, Z_2) - draw.T_e, m_nu) = "neg") => draw.N = "zero"

\* C4: 0 <= limit < Q holds in every state in which a sample is drawn,
\* after any number of calls of the generation entry point.
C4_WindowInvariant ==
    pc = "loop" => /\ 0 <= limit.n
                   /\ limit.n < Q(prog, Z_2) * limit.d

\* C5: in bdecay_sim the guard on the smeared value is true for every
\* T_e_sm, each accepted draw fills E_e_sm once, and E_e_sm has been filled
\* as often as E_e at every iteration boundary.
C5_SmearedUnconditional ==
    (prog = "bdecay_sim" /\ InLoop) =>
        /\ E_e_sm.entries = E_e.entries
        /\ \A x \in ((limit.n - 2 * MaxSmear) .. (limit.n + 2 * MaxSmear))
                    \cup ((Q(prog, Z_2) - 2 * MaxSmear) .. (Q(prog, Z_2) + 2 * MaxSmear)) :
              SmearGuard(prog, Z_2, limit, x)
        /\ ((draw.valid /\ draw.accepted) => draw.filled_sm)

C5_Witness ==
    /\ prog = "bdecay_sim"
    /\ pc = "loop"
    /\ draw.valid /\ draw.accepted /\ draw.filled_sm
    /\ draw.T_e_sm > Q(prog, Z_2)
    /\ E_e_sm.entries = nevents - 1

\* C6: every smeared value filled into E_e_sm satisfies
\* limit <= T_e_sm <= Q.
C6_SmearedClamped ==
    (prog = "bdecay_sim" /\ pc \in {"loop", "done", "crashed"}
     /\ draw.valid /\ draw.filled_sm) =>
        /\ limit.n <= draw.T_e_sm
        /\ draw.T_e_sm <= Q(prog, Z_2)

\* C7: each histogram is written to the container exactly once, only after
\* the loop has accepted nevents samples, and is not filled after its write;
\* the analysis macro asks for exactly the names the generation macro wrote.
C7_WrittenOnce ==
    /\ pc \in {"loop", "crashed"} => rootfile.keys = <<>>
    /\ pc = "done" =>
          /\ counter = nevents
          /\ rootfile.keys = IF prog = "bdecay_sim" THEN <<E_e, E_e_sm>> ELSE <<E_e>>
          /\ prog = "bdecay_sim" => NamesWritten = NamesRead("bdecay_plot")
          /\ prog = "bdecay_ev" => NamesWritten = NamesRead("bdecay2")

C7_Witness ==
    /\ prog = "bdecay_sim"
    /\ pc = "done"
    /\ nevents = LongRun(prog)
    /\ aprog = "bdecay_plot"
    /\ apc = "fit"
    /\ aE_e = E_e /\ aE_e_sm = E_e_sm
    /\ Integral(aE_e) = nevents

\* C8: when Z_1 - Z_2 is neither -1 nor +1 the run aborts before any random
\* draw, before any histogram is created and before a container is opened.
C8_AbortBeforeSampling ==
    (ChecksCharge(prog) /\ Z_1(prog) - Z_2 # 1 /\ Z_1(prog) - Z_2 # 0 - 1) =>
        /\ pc \in {"idle", "aborted"}
        /\ rand = "null"
        /\ E_e = NullHist
        /\ ~rootfile.exists

C8_Witness ==
    /\ pc = "aborted"
    /\ Z_1(prog) - Z_2 = 0 - 2

\* C9: in the analysis run the fit is never invoked on a histogram that is
\* missing (container not opened, or name absent): the run stops before.
C9_NoFitOnMissing == \A i \in 1..Len(fits) : fits[i] # "null"

\* C10: the parameter state with which the fit of E_e_sm starts does not
\* depend on E_e: it is that of the run whose container differs only in the
\* contents of E_e.
C10_IndependentFits == (apc = "fit_sm" /\ aE_e_sm # NullHist) => func = funcTwin

\* No point the generator can return in the current window passes the
\* acceptance test, whatever u is drawn.
NoAcceptable ==
    \A T \in Uniform(WindowLow(prog, limit), Q(prog, Z_2), seed) :
        ~AcceptTest(prog, Z_2, T, TRUE)

C11_Stuck == pc = "loop" /\ counter < nevents /\ NoAcceptable

C11_Step ==
    /\ (pc = "loop" /\ pc' # "loop") => (pc' = "done" /\ counter = nevents)
    /\ (pc = "loop" /\ counter' # counter) =>
           (draw'.valid /\ draw'.accepted /\ counter' = counter + 1)
    /\ (pc = "loop" /\ counter < nevents /\ counter' = counter) =>
           (pc' = "loop" /\ rootfile' = rootfile)
    /\ C11_Stuck => /\ pc' = "loop"
                    /\ counter' = counter
                    /\ rootfile'.keys = <<>>
                    /\ UNCHANGED <<prog, Z_2, seed, limit, nevents>>

\* C11: the sampling loop is left only when the acceptance counter has
\* reached nevents; the counter moves only on an accepted draw; so long as
\* no draw is accepted the counter keeps its value, the run stays in the
\* loop and nothing is written to the container.
C11_NoExitWithoutAcceptance == [][C11_Step]_vars

C11_Witness ==
    /\ prog = "bdecay_sim"
    /\ runs = MaxRuns
    /\ C11_Stuck
    /\ draw.valid /\ ~draw.accepted
    /\ counter = 0
    /\ rootfile.keys = <<>>

\* The versions whose sampling window starts at 0.
FullWindow(p) == p \in {"bdecay_h3", "bdecay_c14"}

\* C12 as stated: in every generation variant the point at which the
\* envelope is evaluated is the midpoint of the sampling window (limit, Q)
\* and lies inside that window.
C12_EnvelopeAtWindowMidpoint ==
    pc = "loop" =>
        /\ WindowLow(prog, limit) < EnvelopePoint(prog, Z_2)
        /\ EnvelopePoint(prog, Z_2) < Q(prog, Z_2)
        /\ EnvelopePoint(prog, Z_2) = (WindowLow(prog, limit) + Q(prog, Z_2)) \div 2

\* C12 amended: the envelope is evaluated at Q/2, the midpoint of (0, Q),
\* whatever limit is.  In bdecay_h3 and bdecay_c14, whose window starts at
\* 0, that is the midpoint of the window and lies inside it; in bdecay_sim
\* and bdecay_ev it lies below the lower end of the window.
C12_EnvelopeAtHalfQ ==
    pc = "loop" =>
        /\ EnvelopePoint(prog, Z_2) = (0 + Q(prog, Z_2)) \div 2
        /\ FullWindow(prog) =>
              /\ WindowLow(prog, limit) < EnvelopePoint(prog, Z_2)
              /\ EnvelopePoint(prog, Z_2) < Q(prog, Z_2)
              /\ EnvelopePoint(prog, Z_2) = (WindowLow(prog, limit) + Q(prog, Z_2)) \div 2
        /\ ~FullWindow(prog) => EnvelopePoint(prog, Z_2) < WindowLow(prog, limit)

C12_Witness ==
    /\ pc = "loop"
    /\ prog = "bdecay_sim"
    /\ runs = 1
    /\ draw.valid /\ draw.accepted
    /\ EnvelopePoint(prog, Z_2) < WindowLow(prog, limit)
    /\ WindowLow(prog, limit) < draw.T_e

\* The points the generator can return in the current window.
Drawable == Uniform(WindowLow(prog, limit), Q(prog, Z_2), seed)

C13_State ==
    /\ (pc \in {"loop", "done", "crashed"} /\ draw.valid /\ draw.accepted) =>
           /\ draw.N = "pos"
           /\ draw.T_e < Q(prog, Z_2) - m_nu
    /\ pc = "loop" =>
           \A T \in Drawable, uLow \in BOOLEAN :
               (N(prog, Z_2, T) \in {"nan", "zero", "neg", "ninf"}
                \/ ~(T < Q(prog, Z_2) - m_nu))
                   => ~AcceptTest(prog, Z_2, T, uLow)

C13_Step ==
    (pc = "loop" /\ E_e' # E_e) =>
        /\ draw'.valid /\ draw'.accepted
        /\ draw'.T_e < Q(prog, Z_2) - m_nu
        /\ E_e' = Fill(E_e, draw'.T_e)

\* C13: the acceptance test is false whenever N(T_e) is NaN, zero or
\* negative, so no draw at or beyond the kinematic boundary is accepted:
\* every sample filled into E_e satisfies T_e < Q - m_nu.
C13_NoForbiddenAccepted == []C13_State /\ [][C13_Step]_vars

C13_Witness ==
    /\ pc = "loop"
    /\ seed = "edge"
    /\ runs = 1
    /\ draw.valid /\ ~draw.accepted
    /\ draw.T_e = Q(prog, Z_2) - m_nu
    /\ draw.N = "zero"
    /\ E_e.entries > 0
    /\ Q(prog, Z_2) - 1 \in Drawable
    /\ N(prog, Z_2, Q(prog, Z_2) - 1) = "nan"

\* C14: for every configured nevents >= 1 the progress check made after an
\* acceptance never takes a remainder by zero (nevents/100 and nevents/10
\* are non-zero), and the run is not killed there.
C14_NoRemainderByZero ==
    /\ pc # "crashed"
    /\ (pc \in {"loop", "done"} /\ draw.valid /\ draw.accepted) =>
           ~ZeroDivisor(prog, counter, nevents)

\* The centre of bin k of hist lies within [lo, hi]; the centre is
\* xlow + (k - 1/2)*(xup - xlow)/nbins.
CentreWithin(hist, k, lo, hi) ==
    LET c2n == 2 * hist.nbins * hist.xlow + (2 * k - 1) * (hist.xup - hist.xlow)
    IN  2 * hist.nbins * lo <= c2n /\ c2n <= 2 * hist.nbins * hi

\* C15: in bdecay_plot the window given to the fit function has
\* fitmin < fitmax, both inside the histogram range [Q-25, Q], and at least
\* one bin centre of the 100-bin histogram lies within [fitmin, fitmax].
C15_FitWindowWellFormed ==
    (aprog = "bdecay_plot" /\ apc \in {"fit", "fit_sm", "end", "crashed"}
     /\ aE_e # NullHist /\ aE_e.nbins = ndivisions("bdecay_sim")
     /\ aE_e.xlow = Q_sim - WindowWidth /\ aE_e.xup = Q_sim) =>
        /\ func.xmin < func.xmax
        /\ aE_e.xlow <= func.xmin /\ func.xmin <= aE_e.xup
        /\ aE_e.xlow <= func.xmax /\ func.xmax <= aE_e.xup
        /\ \E k \in 1..aE_e.nbins : CentreWithin(aE_e, k, func.xmin, func.xmax)

====
